---- MODULE Spec2Model ----
(***************************************************************************)
(* The reversible execution engine of src/engine.rs as a state machine.    *)
(* Every method of Engine is an operator from an engine record (and its    *)
(* arguments) to the pair of the engine afterwards and the value returned; *)
(* every public operation is an action applying that operator to the       *)
(* current state.  Indices are 0-based as in the source; the i-th element  *)
(* of a Vec v is v[i + 1] of the sequence modelling it.                    *)
(***************************************************************************)
EXTENDS Integers, Sequences, FiniteSets, TLC

\* ------------------------------------------------------------------ bounds
\* Longest instruction sequence given to new / load_instructions.
MaxProg == 2
\* Longest tape explored.
MaxTape == 2
\* Longest history explored.
MaxHistory == 2
\* Longest output buffer explored.
MaxOutput == 2
\* Longest pending input explored.
MaxInput == 2
\* Cells stay within MaxCell of zero, on either side of the u8 wrap.
MaxCell == 1
\* Longest pending input explored by SpecRun.
MaxRunInput == 1
\* Most operations called in a behaviour of Spec.
MaxCalls == 4
\* Width of the machine word modelling usize.  The program's usize has 64
\* bits; every length of the model is far below 2^UsizeBits, so a usize
\* operation of the model overflows exactly where the program's does.
UsizeBits == 5

\* --------------------------------------------------------------- constants
\* Number of values of a u8 cell.
U8Mod == 256

UsizeMod == 2 ^ UsizeBits
UsizeMax == UsizeMod - 1

\* The symbols of the instruction catalog.
Symbols == {"+", ".", ",", "s", "j"}

VARIABLES
    tape,                 \* Engine.tape: Vec<u8>
    tape_pointer,         \* Engine.tape_pointer: usize
    instructions,         \* Engine.instructions: Vec<Instruction>
    instruction_pointer,  \* Engine.instruction_pointer: InstructionPointer
    history,              \* Engine.history: Vec<Instruction>
    output,               \* Engine.output: Vec<u8>
    input,                \* Engine.input: Vec<u8>
    input_cell_history,   \* Engine.input_cell_history: Vec<u8>
    overflow_checks,      \* the build: TRUE panics on usize overflow, FALSE wraps
    op,                   \* the operation called last
    result,               \* what it returned
    pending,              \* forward effects executed by step and not yet undone
    calls,                \* operations called so far
    retry,                \* the step that asked for input and is to be retried
    marks,                \* pre-states of the successful steps of the running sequence
    expect,               \* the pre-state the last undo of that sequence has to restore
    executed,             \* instructions whose forward effect ran and is not undone, oldest first
    trip,                 \* the advance / retreat pair under way and where it set out
    advances              \* successful advances made in a row since before-start

engine_vars == <<tape, tape_pointer, instructions, instruction_pointer,
                 history, output, input, input_cell_history>>

vars == <<tape, tape_pointer, instructions, instruction_pointer, history,
          output, input, input_cell_history, overflow_checks, op, result,
          pending, calls, retry, marks, expect, executed, trip, advances>>

\* ------------------------------------------------------------- sequences
RECURSIVE SeqsUpTo(_, _)
SeqsUpTo(S, n) ==
    IF n = 0 THEN {<<>>}
    ELSE LET shorter == SeqsUpTo(S, n - 1)
         IN  shorter \cup {Append(s, x) : s \in {t \in shorter : Len(t) = n - 1}, x \in S}

Last(s) == s[Len(s)]
Front(s) == SubSeq(s, 1, Len(s) - 1)
Min2(a, b) == IF a < b THEN a ELSE b

\* ------------------------------------------------------------- Exception
Ok == [tag |-> "Ok", text |-> "", pos |-> 0, max |-> 0, sym |-> ""]
Error(text, pos, max, sym) ==
    [tag |-> "Error", text |-> text, pos |-> pos, max |-> max, sym |-> sym]
RequestingInput ==
    [tag |-> "RequestingInput", text |-> "", pos |-> 0, max |-> 0, sym |-> ""]
\* Not a value of EngineResult: the call did not return.
Panic(text) == [tag |-> "Panic", text |-> text, pos |-> 0, max |-> 0, sym |-> ""]

\* ---------------------------------------------------- InstructionPointer
Start == [tag |-> "Start", i |-> 0]
End == [tag |-> "End", i |-> 0]
Index(i) == [tag |-> "Index", i |-> i]

\* ------------------------------------------------------------ usize, u8
\* a + b and a - b on usize: a panic when the build checks overflow, the
\* wrapped value when it does not.
add_usize(a, b) ==
    IF a + b < UsizeMod THEN [panic |-> FALSE, v |-> a + b]
    ELSE IF overflow_checks THEN [panic |-> TRUE, v |-> 0]
    ELSE [panic |-> FALSE, v |-> (a + b) % UsizeMod]

sub_usize(a, b) ==
    IF a >= b THEN [panic |-> FALSE, v |-> a - b]
    ELSE IF overflow_checks THEN [panic |-> TRUE, v |-> 0]
    ELSE [panic |-> FALSE, v |-> (a - b) % UsizeMod]

\* ---------------------------------------------------------------- Engine
Eng == [tape |-> tape, tape_pointer |-> tape_pointer,
        instructions |-> instructions,
        instruction_pointer |-> instruction_pointer,
        history |-> history, output |-> output, input |-> input,
        input_cell_history |-> input_cell_history]

\* An operation's outcome: the engine afterwards and the value returned.
R(e, r) == [e |-> e, r |-> r]

new(instrs) ==
    [tape |-> <<0>>, tape_pointer |-> 0, instructions |-> instrs,
     instruction_pointer |-> Start, history |-> <<>>, output |-> <<>>,
     input |-> <<>>, input_cell_history |-> <<>>]

\* load_instructions as a reset of the session would write it.
load_instructions_reset(e, instrs) ==
    R([e EXCEPT !.instructions = instrs, !.history = <<>>], Ok)

\* load_instructions putting the program counter back before the start.
load_instructions_rewind(e, instrs) ==
    R([e EXCEPT !.instructions = instrs, !.instruction_pointer = Start], Ok)

load_instructions(e, instrs) == R([e EXCEPT !.instructions = instrs], Ok)

\* Instruction's ==: two instructions are equal when their symbols are.
instruction_eq(a, b) == a = b

\* goto with the pointer assigned before the index is validated.
goto_assign_first(e, instruction_index) ==
    LET moved == [e EXCEPT !.instruction_pointer = Index(instruction_index)]
        m == sub_usize(Len(e.instructions), 1)
    IN  IF instruction_index < Len(e.instructions) THEN R(moved, Ok)
        ELSE IF m.panic THEN R(e, Panic("attempt to subtract with overflow"))
        ELSE R(moved, Error("no instruction at position", instruction_index, m.v, ""))

goto(e, instruction_index) ==
    IF instruction_index < Len(e.instructions)
    THEN R([e EXCEPT !.instruction_pointer = Index(instruction_index)], Ok)
    ELSE LET m == sub_usize(Len(e.instructions), 1)
         IN  IF m.panic THEN R(e, Panic("attempt to subtract with overflow"))
             ELSE R(e, Error("no instruction at position", instruction_index, m.v, ""))

current_instruction(e) ==
    LET ip == e.instruction_pointer
    IN  IF ip.tag \in {"Start", "End"}
        THEN [panic |-> FALSE, some |-> FALSE, instr |-> ""]
        ELSE IF ip.i < Len(e.instructions)
        THEN [panic |-> FALSE, some |-> TRUE, instr |-> e.instructions[ip.i + 1]]
        ELSE [panic |-> TRUE, some |-> FALSE, instr |-> ""]

next_instruction(e) ==
    LET ip == e.instruction_pointer
        n == add_usize(ip.i, 1)
    IN  IF ip.tag = "End"
        THEN R(e, Error("already at the end of the instruction list", 0, 0, ""))
        ELSE IF ip.tag = "Start"
        THEN R([e EXCEPT !.instruction_pointer = Index(0)], Ok)
        ELSE IF n.panic THEN R(e, Panic("attempt to add with overflow"))
        ELSE IF n.v = Len(e.instructions)
        THEN R([e EXCEPT !.instruction_pointer = End], Ok)
        ELSE R([e EXCEPT !.instruction_pointer = Index(n.v)], Ok)

\* prev_instruction stopping at the first instruction instead of going
\* before the start.
prev_instruction_clamp(e) ==
    LET ip == e.instruction_pointer
        m == sub_usize(Len(e.instructions), 1)
    IN  IF ip.tag = "Start"
        THEN R(e, Error("already at the start of the instruction list", 0, 0, ""))
        ELSE IF ip.tag = "End"
        THEN IF m.panic THEN R(e, Panic("attempt to subtract with overflow"))
             ELSE R([e EXCEPT !.instruction_pointer = Index(m.v)], Ok)
        ELSE IF ip.i = 0
        THEN R(e, Ok)
        ELSE R([e EXCEPT !.instruction_pointer = Index(ip.i - 1)], Ok)

prev_instruction(e) ==
    LET ip == e.instruction_pointer
        m == sub_usize(Len(e.instructions), 1)
    IN  IF ip.tag = "Start"
        THEN R(e, Error("already at the start of the instruction list", 0, 0, ""))
        ELSE IF ip.tag = "End"
        THEN IF m.panic THEN R(e, Panic("attempt to subtract with overflow"))
             ELSE R([e EXCEPT !.instruction_pointer = Index(m.v)], Ok)
        ELSE IF ip.i = 0
        THEN R([e EXCEPT !.instruction_pointer = Start], Ok)
        ELSE R([e EXCEPT !.instruction_pointer = Index(ip.i - 1)], Ok)

\* The loop of goto_next: the offset i from start of the first instruction
\* equal to goto among instructions.iter().skip(start), from offset i on;
\* -1 when the iterator ends.
RECURSIVE scan_next(_, _, _, _)
scan_next(instrs, goto_instr, start, i) ==
    IF start + i >= Len(instrs) THEN -1
    ELSE IF instruction_eq(instrs[start + i + 1], goto_instr) THEN i
    ELSE scan_next(instrs, goto_instr, start, i + 1)

\* goto_next scanning from the current index instead of the one after it.
goto_next_from_current(e, goto_instr) ==
    LET ip == e.instruction_pointer
        start == IF ip.tag = "Start" THEN 0 ELSE ip.i
        i == scan_next(e.instructions, goto_instr, start, 0)
    IN  IF ip.tag = "End"
        THEN R(e, Error("already at the end of the instruction list", 0, 0, ""))
        ELSE IF i >= 0
        THEN R([e EXCEPT !.instruction_pointer = Index(start + i)], Ok)
        ELSE R(e, Error("no next instruction found", 0, 0, goto_instr))

goto_next(e, goto_instr) ==
    LET ip == e.instruction_pointer
        n == add_usize(ip.i, 1)
        start == IF ip.tag = "Start" THEN 0 ELSE n.v
        i == scan_next(e.instructions, goto_instr, start, 0)
    IN  IF ip.tag = "End"
        THEN R(e, Error("already at the end of the instruction list", 0, 0, ""))
        ELSE IF ip.tag = "Index" /\ n.panic
        THEN R(e, Panic("attempt to add with overflow"))
        ELSE IF i >= 0
        THEN R([e EXCEPT !.instruction_pointer = Index(start + i)], Ok)
        ELSE R(e, Error("no next instruction found", 0, 0, goto_instr))

\* The loop of goto_prev: the offset i of the first instruction equal to
\* goto among instructions.iter().take(end).rev(), from offset i on; -1
\* when the iterator ends.  take(end) yields Min2(end, len) instructions.
RECURSIVE scan_prev(_, _, _, _)
scan_prev(instrs, goto_instr, taken, i) ==
    IF i >= taken THEN -1
    ELSE IF instruction_eq(instrs[taken - i], goto_instr) THEN i
    ELSE scan_prev(instrs, goto_instr, taken, i + 1)

goto_prev(e, goto_instr) ==
    LET ip == e.instruction_pointer
        m == sub_usize(Len(e.instructions), 1)
        end == IF ip.tag = "End" THEN m.v ELSE ip.i
        i == scan_prev(e.instructions, goto_instr, Min2(end, Len(e.instructions)), 0)
    IN  IF ip.tag = "Start"
        THEN R(e, Error("already at the start of the instruction list", 0, 0, ""))
        ELSE IF ip.tag = "End" /\ m.panic
        THEN R(e, Panic("attempt to subtract with overflow"))
        ELSE IF i >= 0
        THEN R([e EXCEPT !.instruction_pointer = Index(end - i - 1)], Ok)
        ELSE R(e, Error("no previous instruction found", 0, 0, goto_instr))

next_cell(e) ==
    LET n == add_usize(e.tape_pointer, 1)
    IN  IF n.panic THEN R(e, Panic("attempt to add with overflow"))
        ELSE IF n.v = Len(e.tape)
        THEN R([e EXCEPT !.tape_pointer = n.v, !.tape = Append(@, 0)], Ok)
        ELSE R([e EXCEPT !.tape_pointer = n.v], Ok)

prev_cell(e) ==
    LET m == sub_usize(e.tape_pointer, 1)
    IN  IF m.panic THEN R(e, Panic("attempt to subtract with overflow"))
        ELSE R([e EXCEPT !.tape_pointer = m.v], Ok)

cell(e) ==
    IF e.tape_pointer < Len(e.tape)
    THEN [panic |-> FALSE, v |-> e.tape[e.tape_pointer + 1]]
    ELSE [panic |-> TRUE, v |-> 0]

\* set_cell writing the first cell of the tape instead of the cell at the
\* cursor.
set_cell_origin(e, value) ==
    IF e.tape_pointer < Len(e.tape)
    THEN R([e EXCEPT !.tape[1] = value], Ok)
    ELSE R(e, Panic("index out of bounds"))

set_cell(e, value) ==
    IF e.tape_pointer < Len(e.tape)
    THEN R([e EXCEPT !.tape[e.tape_pointer + 1] = value], Ok)
    ELSE R(e, Panic("index out of bounds"))

\* The byte functions given to map_cell.
ByteFns == {"wrapping_add_1", "wrapping_sub_1"}
apply_fn(f, v) ==
    IF f = "wrapping_add_1" THEN (v + 1) % U8Mod ELSE (v + U8Mod - 1) % U8Mod

map_cell(e, f) ==
    LET c == cell(e)
    IN  IF c.panic THEN R(e, Panic("index out of bounds"))
        ELSE set_cell(e, apply_fn(f, c.v))

\* input putting the new bytes behind the pending ones.
engine_input_append(e, buffered) == R([e EXCEPT !.input = @ \o buffered], Ok)

engine_input(e, buffered) == R([e EXCEPT !.input = buffered \o @], Ok)

\* ---------------------------------------------------- instruction catalog
\* The forward effect of the instruction with symbol sym.
\*   +  increments the cell               .  appends the cell to the output
\*   ,  consumes one input byte into the cell, recording the value it
\*      overwrites; RequestingInput when no input is pending
\*   s  seeks forward to the next s
\*   j  seeks forward to the next s too, as the opening instruction of a
\*      loop seeks its closing one
exec(sym, e) ==
    IF sym = "+" THEN map_cell(e, "wrapping_add_1")
    ELSE IF sym = "."
    THEN LET c == cell(e)
         IN  IF c.panic THEN R(e, Panic("index out of bounds"))
             ELSE R([e EXCEPT !.output = Append(@, c.v)], Ok)
    ELSE IF sym = ","
    THEN LET c == cell(e)
         IN  IF e.input = <<>> THEN R(e, RequestingInput)
             ELSE IF c.panic THEN R(e, Panic("index out of bounds"))
             ELSE set_cell([e EXCEPT !.input_cell_history = Append(@, c.v),
                                     !.input = Tail(@)], e.input[1])
    ELSE goto_next(e, "s")

\* The inverse effect of the instruction with symbol sym; that of s and of
\* j seeks back to the nearest instruction of its own symbol.
unexec(sym, e) ==
    IF sym = "+" THEN map_cell(e, "wrapping_sub_1")
    ELSE IF sym = "."
    THEN IF e.output = <<>> THEN R(e, Error("no output to take back", 0, 0, ""))
         ELSE R([e EXCEPT !.output = Front(@)], Ok)
    ELSE IF sym = ","
    THEN LET c == cell(e)
         IN  IF e.input_cell_history = <<>>
             THEN R(e, Error("no consumed input to give back", 0, 0, ""))
             ELSE IF c.panic THEN R(e, Panic("index out of bounds"))
             ELSE set_cell([e EXCEPT !.input_cell_history = Front(@),
                                     !.input = <<c.v>> \o @],
                           Last(e.input_cell_history))
    ELSE IF sym = "s" THEN goto_prev(e, "s")
    ELSE goto_prev(e, "j")

\* step recording the instruction whatever its forward effect returned.
step_push_always(e) ==
    LET c == current_instruction(e)
        x == exec(c.instr, e)
    IN  IF c.panic THEN R(e, Panic("index out of bounds"))
        ELSE IF c.some
        THEN IF x.r.tag = "Panic" THEN x
             ELSE R([x.e EXCEPT !.history = Append(@, c.instr)], x.r)
        ELSE next_instruction(e)

\* step entering the sequence from before-start and executing the first
\* instruction in the same call.
step_enter_and_exec(e) ==
    LET c == current_instruction(e)
        x == exec(c.instr, e)
        n == next_instruction(e)
        d == current_instruction(n.e)
        y == exec(d.instr, n.e)
    IN  IF c.panic THEN R(e, Panic("index out of bounds"))
        ELSE IF c.some
        THEN IF x.r.tag = "Ok"
             THEN R([x.e EXCEPT !.history = Append(@, c.instr)], Ok)
             ELSE x
        ELSE IF n.r.tag = "Ok" /\ d.some
        THEN IF y.r.tag = "Ok"
             THEN R([y.e EXCEPT !.history = Append(@, d.instr)], Ok)
             ELSE y
        ELSE n

\* step recording the instruction the program counter designates after the
\* forward effect ran.
step_push_landed(e) ==
    LET c == current_instruction(e)
        x == exec(c.instr, e)
        d == current_instruction(x.e)
    IN  IF c.panic THEN R(e, Panic("index out of bounds"))
        ELSE IF c.some
        THEN IF x.r.tag = "Ok"
             THEN IF d.panic THEN R(x.e, Panic("index out of bounds"))
                  ELSE R([x.e EXCEPT !.history = Append(@, d.instr)], Ok)
             ELSE x
        ELSE next_instruction(e)

step(e) ==
    LET c == current_instruction(e)
        x == exec(c.instr, e)
    IN  IF c.panic THEN R(e, Panic("index out of bounds"))
        ELSE IF c.some
        THEN IF x.r.tag = "Ok"
             THEN R([x.e EXCEPT !.history = Append(@, c.instr)], Ok)
             ELSE x
        ELSE next_instruction(e)

\* undo popping the history before it calls the inverse effect.
undo_pop_always(e) ==
    LET x == unexec(Last(e.history), e)
    IN  IF e.history = <<>>
        THEN R(e, Error("no previous instruction to undo", 0, 0, ""))
        ELSE IF x.r.tag = "Panic" THEN x
        ELSE R([x.e EXCEPT !.history = Front(@)], x.r)

\* undo taking the oldest entry of the history instead of the newest.
undo_oldest(e) ==
    LET x == unexec(Head(e.history), e)
    IN  IF e.history = <<>>
        THEN R(e, Error("no previous instruction to undo", 0, 0, ""))
        ELSE IF x.r.tag = "Ok"
        THEN R([x.e EXCEPT !.history = Tail(@)], Ok)
        ELSE x

\* undo moving the program counter back by one after a successful inverse
\* effect.
undo_retreat(e) ==
    LET x == unexec(Last(e.history), e)
        b == prev_instruction(x.e)
    IN  IF e.history = <<>>
        THEN R(e, Error("no previous instruction to undo", 0, 0, ""))
        ELSE IF x.r.tag = "Ok"
        THEN R([(IF b.r.tag = "Ok" THEN b.e ELSE x.e) EXCEPT !.history = Front(@)], Ok)
        ELSE x

undo(e) ==
    LET x == unexec(Last(e.history), e)
    IN  IF e.history = <<>>
        THEN R(e, Error("no previous instruction to undo", 0, 0, ""))
        ELSE IF x.r.tag = "Ok"
        THEN R([x.e EXCEPT !.history = Front(@)], Ok)
        ELSE x

\* ------------------------------------------------------------ environment
Programs == SeqsUpTo(Symbols, MaxProg)
Indices == 0 .. MaxProg + 1
CellRange == {v \in 0 .. U8Mod - 1 : v <= MaxCell \/ v >= U8Mod - MaxCell}
InputBytes == {1, U8Mod - 1}
Buffers == SeqsUpTo(InputBytes, MaxInput) \ {<<>>}

\* The engines explored.  An index beyond the ones new, goto and the seeks
\* produce is explored only as the wrapped value the build without
\* overflow checks computes.
WithinBounds(e) ==
    /\ Len(e.tape) <= MaxTape
    /\ \A k \in 1 .. Len(e.tape) : e.tape[k] \in CellRange
    /\ Len(e.history) <= MaxHistory
    /\ Len(e.output) <= MaxOutput
    /\ Len(e.input) <= MaxInput
    /\ e.instruction_pointer.i \in (0 .. MaxProg + 1) \cup {UsizeMax}

\* The operation called: its name and its argument.
Op(name, idx, sym) == [name |-> name, idx |-> idx, sym |-> sym, buf |-> <<>>]

\* The call load_instructions(instrs).
OpLoad(instrs) ==
    [name |-> "load_instructions", idx |-> Len(instrs), sym |-> "", buf |-> instrs]

\* The call input(buffered).
OpInput(buffered) ==
    [name |-> "input", idx |-> Len(buffered), sym |-> "", buf |-> buffered]

\* What a sequence of steps and undos has to restore.
Snapshot(e) == <<e.tape, e.tape_pointer, e.output>>
NoSnapshot == <<>>

NoRetry == [phase |-> "none", i |-> 0]

\* No advance / retreat pair is under way.
NoTrip == [phase |-> "none", first |-> "", from |-> Start]

\* The call of operation o with outcome x.
Do(o, x) ==
    /\ result.tag # "Panic"
    /\ WithinBounds(x.e)
    /\ tape' = x.e.tape
    /\ tape_pointer' = x.e.tape_pointer
    /\ instructions' = x.e.instructions
    /\ instruction_pointer' = x.e.instruction_pointer
    /\ history' = x.e.history
    /\ output' = x.e.output
    /\ input' = x.e.input
    /\ input_cell_history' = x.e.input_cell_history
    /\ op' = o
    /\ result' = x.r
    /\ UNCHANGED overflow_checks
    /\ pending' =
          IF o.name = "step" /\ x.r.tag = "Ok" /\ current_instruction(Eng).some
          THEN pending + 1
          ELSE IF o.name = "undo" /\ x.r.tag = "Ok" THEN pending - 1
          ELSE pending
    /\ retry' =
          IF o.name = "step" /\ x.r.tag = "RequestingInput"
          THEN [phase |-> "requested", i |-> instruction_pointer.i]
          ELSE IF o.name = "input" /\ retry.phase \in {"requested", "supplied"}
          THEN [retry EXCEPT !.phase = "supplied"]
          ELSE IF o.name = "step" /\ x.r.tag = "Ok" /\ retry.phase = "supplied"
          THEN [retry EXCEPT !.phase = "done"]
          ELSE NoRetry
    /\ marks' =
          IF o.name = "step" /\ x.r.tag = "Ok"
          THEN IF op.name = "undo" THEN <<Snapshot(Eng)>>
               ELSE Append(marks, Snapshot(Eng))
          ELSE IF o.name = "undo" /\ x.r.tag = "Ok" /\ marks # <<>> THEN Front(marks)
          ELSE <<>>
    /\ expect' =
          IF o.name = "undo" /\ x.r.tag = "Ok" /\ marks # <<>>
          THEN <<Last(marks)>>
          ELSE NoSnapshot
    /\ executed' =
          IF o.name = "step" /\ x.r.tag = "Ok" /\ current_instruction(Eng).some
          THEN Append(executed, current_instruction(Eng).instr)
          ELSE IF o.name = "undo" /\ x.r.tag = "Ok" THEN Front(executed)
          ELSE executed
    /\ trip' =
          IF o.name \notin {"next_instruction", "prev_instruction"} THEN NoTrip
          ELSE IF trip.phase = "out" /\ trip.first # o.name
          THEN [trip EXCEPT !.phase = "back"]
          ELSE [phase |-> "out", first |-> o.name, from |-> instruction_pointer]
    /\ advances' =
          IF o.name = "next_instruction" /\ x.r.tag = "Ok"
          THEN IF instruction_pointer = Start THEN 1
               ELSE IF advances > 0 THEN advances + 1
               ELSE 0
          ELSE 0

Init ==
    /\ \E p \in Programs :
          /\ tape = new(p).tape
          /\ tape_pointer = new(p).tape_pointer
          /\ instructions = new(p).instructions
          /\ instruction_pointer = new(p).instruction_pointer
          /\ history = new(p).history
          /\ output = new(p).output
          /\ input = new(p).input
          /\ input_cell_history = new(p).input_cell_history
    /\ overflow_checks \in BOOLEAN
    /\ op = Op("new", 0, "")
    /\ result = Ok
    /\ pending = 0
    /\ calls = 0
    /\ retry = NoRetry
    /\ marks = <<>>
    /\ expect = NoSnapshot
    /\ executed = <<>>
    /\ trip = NoTrip
    /\ advances = 0

\* A call of Spec, within its budget of calls.
Budget == calls < MaxCalls /\ calls' = calls + 1

\* A call of SpecRun, which bounds the state and not the number of calls.
Free == UNCHANGED calls

LoadInstructions ==
    \E p \in Programs :
        Budget /\ Do(OpLoad(p), load_instructions(Eng, p))
Goto == \E i \in Indices : Budget /\ Do(Op("goto", i, ""), goto(Eng, i))
Step == Budget /\ Do(Op("step", 0, ""), step(Eng))
Undo == Budget /\ Do(Op("undo", 0, ""), undo(Eng))
NextInstruction == Budget /\ Do(Op("next_instruction", 0, ""), next_instruction(Eng))
PrevInstruction == Budget /\ Do(Op("prev_instruction", 0, ""), prev_instruction(Eng))
GotoNext == \E s \in Symbols : Budget /\ Do(Op("goto_next", 0, s), goto_next(Eng, s))
GotoPrev == \E s \in Symbols : Budget /\ Do(Op("goto_prev", 0, s), goto_prev(Eng, s))
NextCell == Budget /\ Do(Op("next_cell", 0, ""), next_cell(Eng))
PrevCell == Budget /\ Do(Op("prev_cell", 0, ""), prev_cell(Eng))
SetCell == \E v \in CellRange : Budget /\ Do(Op("set_cell", v, ""), set_cell(Eng, v))
MapCell == \E f \in ByteFns : Budget /\ Do(Op("map_cell", 0, f), map_cell(Eng, f))
Input == \E b \in Buffers : Budget /\ Do(OpInput(b), engine_input(Eng, b))

\* Every public operation, in behaviours of at most MaxCalls calls.
Next ==
    \/ LoadInstructions
    \/ Goto
    \/ Step
    \/ Undo
    \/ NextInstruction
    \/ PrevInstruction
    \/ GotoNext
    \/ GotoPrev
    \/ NextCell
    \/ PrevCell
    \/ SetCell
    \/ MapCell
    \/ Input

Spec == Init /\ [][Next]_vars

RunGoto == \E i \in Indices : Free /\ Do(Op("goto", i, ""), goto(Eng, i))
RunStep == Free /\ Do(Op("step", 0, ""), step(Eng))
RunUndo == Free /\ Do(Op("undo", 0, ""), undo(Eng))
RunNextInstruction == Free /\ Do(Op("next_instruction", 0, ""), next_instruction(Eng))
RunPrevInstruction == Free /\ Do(Op("prev_instruction", 0, ""), prev_instruction(Eng))
RunGotoNext == \E s \in Symbols : Free /\ Do(Op("goto_next", 0, s), goto_next(Eng, s))
RunGotoPrev == \E s \in Symbols : Free /\ Do(Op("goto_prev", 0, s), goto_prev(Eng, s))
RunInput ==
    \E b \in Buffers :
        /\ Len(b) + Len(input) <= MaxRunInput
        /\ Free
        /\ Do(OpInput(b), engine_input(Eng, b))

\* Stepping, undoing, navigation and input on the program given to new, in
\* behaviours of any length.
NextRun ==
    \/ RunGoto
    \/ RunStep
    \/ RunUndo
    \/ RunNextInstruction
    \/ RunPrevInstruction
    \/ RunGotoNext
    \/ RunGotoPrev
    \/ RunInput

SpecRun == Init /\ [][NextRun]_vars

\* ------------------------------------------------------------------ claims
\* The symbols of the catalog whose effects leave the program counter.
Stationary == {"+", ".", ","}

\* The program counter is before-start, after-end or at an instruction.
PcValid(e) ==
    \/ e.instruction_pointer.tag \in {"Start", "End"}
    \/ e.instruction_pointer.i < Len(e.instructions)

MaxOf(S) == CHOOSE m \in S : \A k \in S : k <= m
MinOf(S) == CHOOSE m \in S : \A k \in S : m <= k

\* The indices of the instructions with symbol sym among lo .. hi.
Matches(sym, lo, hi) == {j \in lo .. hi : instructions[j + 1] = sym}

\* C1 (invertibility): after k consecutive successful steps followed by k
\* successful undos, the tape, the cursor and the output are what they were
\* before the first of those steps.  expect holds what the undo just made
\* has to restore: the pre-state of the step it is paired with.
C1_Invertibility == expect # NoSnapshot => expect = <<Snapshot(Eng)>>

\* C2 (cursor invariant): after every operation that returns success the
\* cursor is an index of the tape.
C2_CursorInvariant == result.tag = "Ok" => tape_pointer \in 0 .. Len(tape) - 1

\* C3 (strong exception safety): an operation that returns an ordinary
\* Error leaves every component of the engine as it was before the call.
C3_StrongExceptionSafety ==
    [][result'.tag = "Error" => engine_vars' = engine_vars]_vars

\* step at after-end and undo with an inverse effect that fails have both
\* returned an Error.
C3_Witness ==
    /\ result.tag = "Error"
    /\ \/ op.name = "step" /\ instruction_pointer = End
       \/ op.name = "undo" /\ history # <<>> /\ instruction_pointer.tag = "Index"

\* C4 (jump validity): goto(i) succeeds and sets the program counter to
\* Index(i) iff i < N; otherwise it returns an Error that reports N - 1 and
\* leaves the engine unchanged; it never panics.
C4_JumpValidity ==
    [][op'.name = "goto" =>
          IF op'.idx < Len(instructions)
          THEN result' = Ok /\ instruction_pointer' = Index(op'.idx)
          ELSE /\ result'.tag = "Error"
               /\ result'.max = Len(instructions) - 1
               /\ engine_vars' = engine_vars]_vars

\* C5 (seek-backward): from Index(i) goto_prev lands on the greatest j < i
\* with the symbol, from after-end on the greatest j <= N - 1; with no such
\* j it fails with not-found and leaves the program counter; from
\* before-start it fails with already-at-the-start.
C5_SeekBackward ==
    [][(op'.name = "goto_prev" /\ PcValid(Eng)) =>
          LET ip == instruction_pointer
              hi == IF ip.tag = "End" THEN Len(instructions) - 1 ELSE ip.i - 1
              M == Matches(op'.sym, 0, hi)
          IN  IF ip.tag = "Start"
              THEN /\ result'.tag = "Error"
                   /\ result'.text = "already at the start of the instruction list"
                   /\ instruction_pointer' = ip
              ELSE IF M # {}
              THEN result' = Ok /\ instruction_pointer' = Index(MaxOf(M))
              ELSE /\ result'.tag = "Error"
                   /\ result'.text = "no previous instruction found"
                   /\ result'.sym = op'.sym
                   /\ instruction_pointer' = ip]_vars

\* C6 (seek-forward): from before-start goto_next lands on the least j >= 0
\* with the symbol, from Index(i) on the least j > i; with no such j it
\* fails with not-found and leaves the program counter; from after-end it
\* fails with already-at-the-end.
C6_SeekForward ==
    [][(op'.name = "goto_next" /\ PcValid(Eng)) =>
          LET ip == instruction_pointer
              lo == IF ip.tag = "Start" THEN 0 ELSE ip.i + 1
              M == Matches(op'.sym, lo, Len(instructions) - 1)
          IN  IF ip.tag = "End"
              THEN /\ result'.tag = "Error"
                   /\ result'.text = "already at the end of the instruction list"
                   /\ instruction_pointer' = ip
              ELSE IF M # {}
              THEN result' = Ok /\ instruction_pointer' = Index(MinOf(M))
              ELSE /\ result'.tag = "Error"
                   /\ result'.text = "no next instruction found"
                   /\ result'.sym = op'.sym
                   /\ instruction_pointer' = ip]_vars

\* A seek from a match at index 0 has landed on the next match, at index 1.
C6_Witness ==
    /\ op.name = "goto_next"
    /\ result = Ok
    /\ Len(instructions) = 2
    /\ instructions[1] = op.sym
    /\ instruction_pointer = Index(1)

\* C7 (program-counter validity): without load, the program counter is
\* before-start, after-end or Index(i) with i < N, and no call panics.
C7_PcValidity == PcValid(Eng) /\ result.tag # "Panic"

\* C8 as claimed: an undo whose inverse effect fails leaves the history one
\* entry shorter.
C8_FailedUndoConsumes ==
    [][(op'.name = "undo" /\ history # <<>> /\ result'.tag = "Error") =>
          Len(history') = Len(history) - 1]_vars

\* C8 as amended: an undo whose inverse effect fails leaves the history as
\* it was, so that a following undo targets the same instruction.
C8_FailedUndoKeeps ==
    [][(op'.name = "undo" /\ history # <<>> /\ result'.tag = "Error") =>
          history' = history]_vars

\* An undo on a non-empty history has failed in its inverse effect.
C8_Witness == op.name = "undo" /\ result.tag = "Error" /\ history # <<>>

\* C9 (a failed step did not happen): a step at an instruction whose
\* forward effect returns Error or RequestingInput returns that result and
\* leaves the history; one whose forward effect succeeds appends exactly
\* that instruction; while a step that asked for input waits for it, and
\* through input, the program counter, the program and the history stay,
\* and the step retried after input appends the instruction that asked.
C9_FailedStepDidNotHappen ==
    [][/\ (op'.name = "step" /\ current_instruction(Eng).some) =>
             LET c == current_instruction(Eng)
             IN  /\ result'.tag \in {"Error", "RequestingInput"} =>
                       history' = history /\ result' = exec(c.instr, Eng).r
                 /\ result'.tag = "Ok" => history' = Append(history, c.instr)
       /\ retry'.phase \in {"requested", "supplied"} =>
             /\ instruction_pointer' = Index(retry'.i)
             /\ instructions' = instructions
             /\ history' = history
       /\ (retry.phase = "supplied" /\ op'.name = "step" /\ result'.tag = "Ok") =>
             history' = Append(history, instructions[retry.i + 1])]_vars

\* A step that asked for input has been retried after input and succeeded.
C9_Witness == retry.phase = "done" /\ history # <<>> /\ Last(history) = ","

\* C10 (history length): the history is as long as the number of forward
\* effects step executed successfully and undo has not undone since.
C10_HistoryLength == pending = Len(history)

\* Two instructions were executed and one of them undone.
C10_Witness == op.name = "undo" /\ result = Ok /\ pending = 1

\* C11 (undo is last-in-first-out): with no forward effect left to undo,
\* undo returns the error "no previous instruction to undo" and changes
\* nothing; otherwise it invokes the inverse effect of the instruction
\* whose forward effect ran last among those not yet undone, returns what
\* that inverse effect returns, and on success that instruction is no
\* longer among them, so that successive undos invert in reverse order of
\* execution.  executed is kept from the results of step and undo.
C11_UndoLifo ==
    [][op'.name = "undo" =>
          IF executed = <<>>
          THEN /\ result' = Error("no previous instruction to undo", 0, 0, "")
               /\ engine_vars' = engine_vars
          ELSE LET x == unexec(Last(executed), Eng)
               IN  /\ result' = x.r
                   /\ <<tape', tape_pointer', instructions', instruction_pointer',
                        output', input', input_cell_history'>> =
                      <<x.e.tape, x.e.tape_pointer, x.e.instructions,
                        x.e.instruction_pointer, x.e.output, x.e.input,
                        x.e.input_cell_history>>
                   /\ x.r.tag = "Ok" =>
                         history' = Front(executed) /\ executed' = Front(executed)
                   /\ x.r.tag # "Ok" => history' = executed]_vars

\* Of + executed first and . executed second, undo has inverted the . and
\* left the +.
C11_Witness ==
    /\ op.name = "undo"
    /\ result = Ok
    /\ executed = <<"+">>
    /\ tape = <<1>>
    /\ output = <<>>

\* C12 (boundary symmetry round trip): from Index(i) with i < N,
\* next_instruction followed by prev_instruction, and prev_instruction
\* followed by next_instruction, both return Ok and leave the program
\* counter at Index(i).  trip holds the first operation of the pair and
\* the program counter it set out from; its phase is "out" after the first
\* call and "back" after the second.
C12_RoundTrip ==
    (/\ trip.phase \in {"out", "back"}
     /\ trip.from.tag = "Index"
     /\ trip.from.i < Len(instructions)) =>
        /\ result = Ok
        /\ trip.phase = "back" => instruction_pointer = trip.from

\* From the last instruction, next_instruction went to after-end and
\* prev_instruction came back; from the first, prev_instruction went to
\* before-start and next_instruction came back.
C12_Witness ==
    /\ trip.phase = "back"
    /\ result = Ok
    /\ instruction_pointer = trip.from
    /\ \/ trip.first = "next_instruction" /\ trip.from = Index(Len(instructions) - 1)
       \/ trip.first = "prev_instruction" /\ trip.from = Index(0) /\ instructions # <<>>

\* C13 (tape growth monotonicity): no operation shortens the tape and only
\* next_cell changes its length; next_cell returns Ok, moves the cursor up
\* by exactly one, and appends exactly one zero cell when the cursor was on
\* the last cell, leaving the cells there were; otherwise it leaves the
\* tape.
C13_TapeGrowth ==
    [][/\ Len(tape') >= Len(tape)
       /\ op'.name # "next_cell" => Len(tape') = Len(tape)
       /\ op'.name = "next_cell" =>
             /\ result' = Ok
             /\ tape_pointer' = tape_pointer + 1
             /\ tape' = IF tape_pointer = Len(tape) - 1 THEN Append(tape, 0)
                        ELSE tape]_vars

\* C14 (input prepends): after input(buffered) the pending input is the
\* bytes of buffered, in their order, followed by the input that was
\* pending, in its order; the call returns Ok and changes no other
\* component of the engine.  The bytes of the later call are then in front
\* of those of an earlier call.
C14_InputPrepends ==
    [][op'.name = "input" =>
          /\ result' = Ok
          /\ input' = op'.buf \o input
          /\ <<tape', tape_pointer', instructions', instruction_pointer',
               history', output', input_cell_history'>> =
             <<tape, tape_pointer, instructions, instruction_pointer,
               history, output, input_cell_history>>]_vars

\* A second call of input has put its byte in front of the byte of the
\* first call.
C14_Witness ==
    /\ op.name = "input"
    /\ op.buf = <<1>>
    /\ input = <<1, U8Mod - 1>>

\* C15 (advance / retreat transition table): next_instruction takes
\* before-start to Index(0), Index(i) with i + 1 < N to Index(i + 1),
\* Index(N - 1) to after-end, and fails at after-end; prev_instruction
\* takes after-end to Index(N - 1), Index(i) with i > 0 to Index(i - 1),
\* Index(0) to before-start, and fails at before-start; and so N + 1
\* successful advances in a row from before-start end at after-end, every
\* advance before that succeeds, and the one after it fails.
C15_TransitionTable ==
    [][LET ip == instruction_pointer
           N == Len(instructions)
       IN  /\ (op'.name = "next_instruction" /\ PcValid(Eng)) =>
                 IF ip.tag = "End"
                 THEN /\ result'.tag = "Error"
                      /\ result'.text = "already at the end of the instruction list"
                      /\ instruction_pointer' = ip
                 ELSE /\ result' = Ok
                      /\ instruction_pointer' =
                            IF ip.tag = "Start" THEN Index(0)
                            ELSE IF ip.i + 1 < N THEN Index(ip.i + 1)
                            ELSE End
           /\ (op'.name = "prev_instruction" /\ PcValid(Eng)) =>
                 IF ip.tag = "Start"
                 THEN /\ result'.tag = "Error"
                      /\ result'.text = "already at the start of the instruction list"
                      /\ instruction_pointer' = ip
                 ELSE /\ result' = Ok
                      /\ instruction_pointer' =
                            IF ip.tag = "End" THEN Index(N - 1)
                            ELSE IF ip.i > 0 THEN Index(ip.i - 1)
                            ELSE Start
           /\ advances' > 0 =>
                 /\ advances' <= N + 1
                 /\ advances' = N + 1 => instruction_pointer' = End
           /\ (op'.name = "next_instruction" /\ 0 < advances /\ advances <= N) =>
                 result' = Ok
           /\ (op'.name = "next_instruction" /\ advances = N + 1) =>
                 /\ result'.tag = "Error"
                 /\ result'.text = "already at the end of the instruction list"]_vars

\* C16 (step at a boundary is next_instruction): at before-start and at
\* after-end step returns what next_instruction returns from that state
\* and leaves the engine as next_instruction leaves it: from before-start
\* Ok at Index(0), from after-end the error "already at the end" with the
\* program counter left; no forward effect runs, so that the history, the
\* tape, the cursor, the output and the input stay as they were.
C16_StepAtBoundary ==
    [][(op'.name = "step" /\ instruction_pointer.tag \in {"Start", "End"}) =>
          LET x == next_instruction(Eng)
          IN  /\ result' = x.r
              /\ instruction_pointer' = x.e.instruction_pointer
              /\ IF instruction_pointer = Start
                 THEN result' = Ok /\ instruction_pointer' = Index(0)
                 ELSE /\ result'.tag = "Error"
                      /\ result'.text = "already at the end of the instruction list"
                      /\ instruction_pointer' = End
              /\ <<tape', tape_pointer', instructions', history', output',
                   input', input_cell_history'>> =
                 <<tape, tape_pointer, instructions, history, output, input,
                   input_cell_history>>
              /\ executed' = executed]_vars

\* A step from before-start has entered a program that begins with an
\* instruction writing the output, and has written nothing.
C16_Witness ==
    /\ op.name = "step"
    /\ result = Ok
    /\ instruction_pointer = Index(0)
    /\ instructions # <<>>
    /\ instructions[1] = "."
    /\ history = <<>>
    /\ output = <<>>

\* C17 (load frame condition): load_instructions replaces the instruction
\* sequence and nothing else: the tape, the cursor, the program counter,
\* the history, the output, the input and the input-cell history after the
\* call are those before it, whatever the new sequence, one shorter than
\* the index of the program counter included.
C17_LoadFrame ==
    [][op'.name = "load_instructions" =>
          /\ result' = Ok
          /\ instructions' = op'.buf
          /\ <<tape', tape_pointer', instruction_pointer', history', output',
               input', input_cell_history'>> =
             <<tape, tape_pointer, instruction_pointer, history, output,
               input, input_cell_history>>]_vars

\* A sequence of at most one instruction was loaded with the program
\* counter at index 1 and an executed instruction in the history.
C17_Witness ==
    /\ op.name = "load_instructions"
    /\ instruction_pointer = Index(1)
    /\ Len(instructions) <= 1
    /\ history # <<>>

\* C18 (undo does not move the program counter by itself): a successful
\* undo of an instruction whose inverse effect leaves the program counter
\* leaves it where it was before the call; and beyond what the inverse
\* effect of the last entry did to the engine, a successful undo only
\* removes that entry from the history.
C18_UndoKeepsPc ==
    [][(op'.name = "undo" /\ history # <<>> /\ result' = Ok) =>
          LET x == unexec(Last(history), Eng)
          IN  /\ Last(history) \in Stationary =>
                    instruction_pointer' = instruction_pointer
              /\ history' = Front(history)
              /\ instructions' = instructions
              /\ <<tape', tape_pointer', instruction_pointer', output',
                   input', input_cell_history'>> =
                 <<x.e.tape, x.e.tape_pointer, x.e.instruction_pointer,
                   x.e.output, x.e.input, x.e.input_cell_history>>]_vars

\* In a program without a seek, the only executed instruction has been
\* undone with the program counter at index 1.
C18_Witness ==
    /\ op.name = "undo"
    /\ result = Ok
    /\ instruction_pointer = Index(1)
    /\ Len(instructions) = 2
    /\ instructions[2] \in Stationary
    /\ instructions[1] \in Stationary
    /\ history = <<>>

\* C19 (step records the designated instruction and does not advance): a
\* successful step at Index(i) appends to the history the instruction at
\* index i before the call, also when its forward effect moved the program
\* counter; step itself leaves the program counter, so that with a forward
\* effect that leaves it the program counter is still Index(i) and each
\* further step executes instruction i again and appends it again.
C19_StepRecordsDesignated ==
    [][(/\ op'.name = "step"
        /\ instruction_pointer.tag = "Index"
        /\ instruction_pointer.i < Len(instructions)
        /\ result' = Ok) =>
          LET instr == instructions[instruction_pointer.i + 1]
          IN  /\ history' = Append(history, instr)
              /\ executed' = Append(executed, instr)
              /\ instr \in Stationary =>
                    instruction_pointer' = instruction_pointer
              /\ instruction_pointer' = exec(instr, Eng).e.instruction_pointer]_vars

\* A step at a j at index 0 has moved the program counter to the s at
\* index 1 and recorded the j.
C19_Witness ==
    /\ op.name = "step"
    /\ result = Ok
    /\ instructions = <<"j", "s">>
    /\ instruction_pointer = Index(1)
    /\ history = <<"j">>

\* The operations on the program counter and those on the tape.
Navigation ==
    {"goto", "next_instruction", "prev_instruction", "goto_next", "goto_prev"}
CellOps == {"next_cell", "prev_cell", "set_cell", "map_cell"}

\* C20 (disjoint footprints): goto, next_instruction, prev_instruction,
\* goto_next and goto_prev, successful or failing, leave the tape, the
\* cursor, the history, the output, the input and the instructions;
\* next_cell, prev_cell, set_cell and map_cell leave the program counter,
\* the history, the output, the input and the instructions; set_cell and
\* map_cell leave the cursor and every cell of the tape but the one at the
\* cursor, which holds the value written or the image of the value it held.
C20_DisjointFootprints ==
    [][/\ op'.name \in Navigation =>
             <<tape', tape_pointer', history', output', input', instructions',
               input_cell_history'>> =
             <<tape, tape_pointer, history, output, input, instructions,
               input_cell_history>>
       /\ op'.name \in CellOps =>
             <<instruction_pointer', history', output', input', instructions',
               input_cell_history'>> =
             <<instruction_pointer, history, output, input, instructions,
               input_cell_history>>
       /\ op'.name \in {"set_cell", "map_cell"} =>
             /\ tape_pointer' = tape_pointer
             /\ Len(tape') = Len(tape)
             /\ \A k \in 1 .. Len(tape) :
                   k # tape_pointer + 1 => tape'[k] = tape[k]
             /\ (result' = Ok /\ op'.name = "set_cell") =>
                   tape'[tape_pointer + 1] = op'.idx
             /\ (result' = Ok /\ op'.name = "map_cell") =>
                   tape'[tape_pointer + 1] = apply_fn(op'.sym, tape[tape_pointer + 1])]_vars

\* With the cursor on the second cell, set_cell has written that cell and
\* left the first.
C20_Witness ==
    /\ op.name = "set_cell"
    /\ result = Ok
    /\ tape_pointer = 1
    /\ tape = <<0, 1>>

====
